---- MODULE Spec2Model ----
(***************************************************************************)
(* Model of imgutils/generic/yolo.py: the YOLO inference pipeline.         *)
(*                                                                         *)
(*  - _image_preprocess (aspect preserving resize, aligned up), with the   *)
(*    binary64 arithmetic of Python floats computed exactly on integers;   *)
(*  - YOLOModel._open_model / predict / clear and the lru_cache'd          *)
(*    _open_models_for_repo_id behind yolo_predict, as a state machine of  *)
(*    threads that interleave at every access to the shared dictionaries;  *)
(*  - _yolo_nms, _xy_postprocess and _data_postprocess applied to drawn    *)
(*    boxes, points and raw outputs, with the order the unstable sort of   *)
(*    numpy leaves equal scores in drawn too.                              *)
(***************************************************************************)
EXTENDS Integers, Sequences, FiniteSets, TLC

\* ------------------------------------------------------------------------
\* Bounds of the model
\* ------------------------------------------------------------------------
\* largest image width / height tried by the preprocess specification
MaxDim == 26
\* largest max_infer_size tried by the preprocess specification
MaxInfer == 15
\* largest align tried by the preprocess specification
MaxAlign == 3
\* total number of hf_hub_download invocations in one behaviour
MaxDownloads == 2
\* largest width, height and max_infer_size tried by the round trip
\* specification
MaxRtDim == 6
\* largest number of boxes given to _yolo_nms by the suppression specification
MaxBoxes == 3
\* largest number of candidates in a raw output of the postprocess
\* specification
MaxCands == 2

\* ------------------------------------------------------------------------
\* Integer helpers
\* ------------------------------------------------------------------------
Max2(a, b) == IF a >= b THEN a ELSE b

Min2(a, b) == IF a <= b THEN a ELSE b

\* math.ceil(n / d) for integers n >= 0, d >= 1 whose quotient is far from
\* the limits of binary64 (the quotient is then correctly rounded and never
\* crosses an integer)
CeilDiv(n, d) == (n + d - 1) \div d

RECURSIVE Pow2(_)
Pow2(n) == IF n <= 0 THEN 1 ELSE 2 * Pow2(n - 1)

\* floor(log2(n)) for n >= 1: the binary exponent of the float n
RECURSIVE Log2Floor(_)
Log2Floor(n) == IF n < 2 THEN 0 ELSE 1 + Log2Floor(n \div 2)

\* 2^s mod d by repeated squaring (every intermediate value < d * d)
RECURSIVE Pow2Mod(_, _)
Pow2Mod(s, d) ==
    IF s = 0 THEN 1 % d
    ELSE LET h == Pow2Mod(s \div 2, d)
             sq == (h * h) % d
         IN  IF s % 2 = 1 THEN (2 * sq) % d ELSE sq

\* (m * 2^s) mod d
ShiftMod(m, s, d) == ((m % d) * Pow2Mod(s, d)) % d

\* least g >= 1 with m * 2^g >= d, for 1 <= m < d: the quotient m / d lies in
\* [2^-g, 2^(1-g)), so its 53 bit significand is m * 2^(52+g) / d rounded
RECURSIVE QuotientExp(_, _, _)
QuotientExp(m, d, g) == IF m * Pow2(g) >= d THEN g ELSE QuotientExp(m, d, g + 1)

\* ------------------------------------------------------------------------
\* binary64 arithmetic of  r = max_infer_size / max(w, h);  dim * r
\* ------------------------------------------------------------------------
\* For integers 1 <= m < big and dim <= big with dim * m divisible by big
\* (n0 = dim * m / big is an integer), TRUE iff the float product
\* dim * (m / big) is strictly greater than n0.
\*   r = fl(m / big) = sig * 2^-s with s = 52 + g and sig the nearest integer
\*   to m * 2^s / big; rho = (m * 2^s) mod big.  rho = 0: r is exact and so is
\*   the product.  2 * rho < big: sig is rounded down, the product is below
\*   n0 and rounds to at most n0.  2 * rho > big: sig is rounded up and
\*   dim * r = n0 + dim * (big - rho) / (big * 2^s), which rounds above n0
\*   iff it exceeds n0 by more than half an ulp of n0, 2^(Log2Floor(n0) - 53)
\*   (a tie rounds to n0, whose significand is even).
FloatProductExceeds(dim, m, big) ==
    LET n0 == (dim * m) \div big
        g == QuotientExp(m, big, 1)
        rho == ShiftMod(m, 52 + g, big)
    IN  /\ n0 >= 1
        /\ 2 * rho > big
        /\ dim * (big - rho) > big * Pow2(Log2Floor(n0) + g - 1)

\* int(math.ceil((dim * r) / align) * align) with r = m / big < 1.
\* dim * m / (big * align) is a rational with a small denominator: unless it
\* is an integer the rounding errors (relative 2^-51) cannot move it across
\* an integer; when it is an integer k the ceiling is k + 1 exactly when the
\* float product is above k * align (dividing by align keeps it above k).
ScaledAligned(dim, m, big, align) ==
    LET num == dim * m
        den == big * align
        k == CeilDiv(num, den)
    IN  IF num % den = 0 /\ FloatProductExceeds(dim, m, big)
        THEN (k + 1) * align
        ELSE k * align

\* _image_preprocess without the test r < 1: the scale factor is applied
\* even when it enlarges the image
UpscalingImagePreprocess(width, height, max_infer_size, align) ==
    LET big == Max2(width, height)
    IN  [old |-> <<width, height>>,
         new |-> <<CeilDiv(width * max_infer_size, big * align) * align,
                   CeilDiv(height * max_infer_size, big * align) * align>>]

\* _image_preprocess(image, max_infer_size, align): the sizes it returns,
\* [old |-> (old_width, old_height), new |-> (new_width, new_height)]
_image_preprocess(width, height, max_infer_size, align) ==
    LET big == Max2(width, height)
        \* r = max_infer_size / big;  r < 1  iff  max_infer_size < big
        scaled == max_infer_size < big
    IN  [old |-> <<width, height>>,
         new |-> IF scaled
                 THEN <<ScaledAligned(width, max_infer_size, big, align),
                        ScaledAligned(height, max_infer_size, big, align)>>
                 ELSE <<CeilDiv(width, align) * align,
                        CeilDiv(height, align) * align>>]

\* ------------------------------------------------------------------------
\* Post-processing of the raw model output
\* ------------------------------------------------------------------------
\* Numbers of the raw output (box coordinates and scores) and the two
\* thresholds are fixed point: the integer n stands for n / Unit.  Corner
\* coordinates, which halve a width, are kept in units of 1 / (2 * Unit).
Unit == 10

\* the integer value v in corner units
One == 2 * Unit

\* _yolo_xywh2xyxy on one row (x, y, w, h), the result in corner units
_yolo_xywh2xyxy(x) ==
    <<2 * x[1] - x[3], 2 * x[2] - x[4], 2 * x[1] + x[3], 2 * x[2] + x[4]>>

\* areas = (x2 - x1 + 1) * (y2 - y1 + 1), in squared corner units
BoxArea(b) == (b[3] - b[1] + One) * (b[4] - b[2] + One)

\* inter = w * h of the loop body of _yolo_nms, in squared corner units
BoxInter(a, b) ==
    LET w == Max2(0, Min2(a[3], b[3]) - Max2(a[1], b[1]) + One)
        h == Max2(0, Min2(a[4], b[4]) - Max2(a[2], b[2]) + One)
    IN  w * h

\* iou < thresh: a box whose iou equals the threshold is dropped
IouLess(a, b, thresh) ==
    LET inter == BoxInter(a, b)
        union == BoxArea(a) + BoxArea(b) - inter
    IN  IF union > 0 THEN inter * Unit < thresh * union
        ELSE IF union < 0 THEN inter * Unit > thresh * union
        ELSE FALSE

\* iou <= thresh, with iou = inter / (areas[i] + areas[j] - inter).  The
\* union is positive for boxes with xmin <= xmax and ymin <= ymax; a box with
\* a negative width or height has a negative area, the union may then be
\* negative (the quotient changes sign) or zero (the quotient is inf or nan,
\* and the comparison is False)
IouLeq(a, b, thresh) ==
    LET inter == BoxInter(a, b)
        union == BoxArea(a) + BoxArea(b) - inter
    IN  IF union > 0 THEN inter * Unit <= thresh * union
        ELSE IF union < 0 THEN inter * Unit >= thresh * union
        ELSE FALSE

\* scores.argsort()[::-1]: the indices by ascending score, reversed.  The
\* default sort of numpy is not stable, the order of equal scores depends on
\* the build (insertion sort, introsort or a vectorised sorting network):
\* equal scores come in the order of key, highest key first.
RECURSIVE ArgsortKeyed(_, _, _)
ArgsortKeyed(scores, key, todo) ==
    IF todo = {} THEN <<>>
    ELSE LET i == CHOOSE c \in todo : \A d \in todo :
                      \/ scores[c] > scores[d]
                      \/ scores[c] = scores[d] /\ key[c] >= key[d]
         IN  <<i>> \o ArgsortKeyed(scores, key, todo \ {i})

\* one pass of the loop with order = order[inds] in place of
\* order[inds + 1]: the positions found in order[1:] are read in order
NmsFilterUnshifted(boxes, order, thresh) ==
    LET i == Head(order)
        picked == [p \in 1..(Len(order) - 1) |->
                      IF IouLeq(boxes[i], boxes[order[p + 1]], thresh)
                      THEN order[p] ELSE 0]
    IN  SelectSeq(picked, LAMBDA j : j # 0)

\* one pass of the while loop of _yolo_nms after order[0] is kept: the rest
\* of order filtered by iou <= thresh (inds = np.where(iou <= thresh)[0],
\* order = order[inds + 1])
NmsFilter(boxes, order, thresh) ==
    LET i == Head(order)
    IN  SelectSeq(Tail(order), LAMBDA j : IouLeq(boxes[i], boxes[j], thresh))

\* the while loop of _yolo_nms: order[0] is kept, the rest of order is
\* filtered, until order is empty
RECURSIVE NmsLoop(_, _, _, _)
NmsLoop(boxes, order, thresh, keep) ==
    IF order = <<>> THEN keep
    ELSE NmsLoop(boxes, NmsFilter(boxes, order, thresh), thresh,
                 Append(keep, Head(order)))

\* _yolo_nms without the reversal of the sorted indices: the lowest score is
\* taken first
YoloNmsAscending(boxes, scores, thresh, key) ==
    LET order == ArgsortKeyed(scores, key, DOMAIN scores)
    IN  NmsLoop(boxes, [p \in 1..Len(order) |-> order[Len(order) + 1 - p]],
                thresh, <<>>)

\* _yolo_nms(boxes, scores, thresh) with equal scores ordered by key: the
\* kept indices into boxes
YoloNmsKeyed(boxes, scores, thresh, key) ==
    NmsLoop(boxes, ArgsortKeyed(scores, key, DOMAIN scores), thresh, <<>>)

\* _yolo_nms(boxes, scores, thresh) on an array of at most 16 elements, which
\* numpy without vectorised sorts orders by insertion: equal scores stay in
\* index order, so after the reversal they come highest index first
_yolo_nms(boxes, scores, thresh) ==
    YoloNmsKeyed(boxes, scores, thresh, [i \in DOMAIN scores |-> i])

\* round(p / q) of numpy for p >= 0, q > 0: to nearest, a half to even
RoundHalfEven(p, q) ==
    LET f == p \div q
        r == p % q
    IN  IF 2 * r < q THEN f
        ELSE IF 2 * r > q THEN f + 1
        ELSE IF f % 2 = 0 THEN f ELSE f + 1

\* one axis of _xy_postprocess: v in corner units, v / new * old clipped to
\* [0, old] and rounded
AxisPostprocess(v, old, new) ==
    IF v <= 0 THEN 0
    ELSE IF v * old >= old * new * One THEN old
    ELSE RoundHalfEven(v * old, new * One)

\* _xy_postprocess(x, y, old_size, new_size)
_xy_postprocess(x, y, old_size, new_size) ==
    <<AxisPostprocess(x, old_size[1], new_size[1]),
      AxisPostprocess(y, old_size[2], new_size[2])>>

\* one axis of _xy_postprocess that scales by new / old once more instead of
\* inverting the scale
AxisOutcomesForward(x, old, new) ==
    LET p == x[1] * new
        q == x[2] * old
    IN  IF p <= 0 THEN {0}
        ELSE IF p >= old * q THEN {old}
        ELSE IF 2 * (p % q) = q THEN {p \div q, (p \div q) + 1}
        ELSE {RoundHalfEven(p, q)}

\* one axis of _xy_postprocess on a coordinate that is any rational
\* x[1] / x[2] (x[2] > 0), in pixels: the integers that
\* int(np.clip(x / new * old, 0, old).round()) can be.  The two binary64
\* roundings of x / new * old stay within 2^-51 of the exact value, which
\* decides the result unless that value is halfway between two integers:
\* there the float may fall on either side.
AxisOutcomes(x, old, new) ==
    LET p == x[1] * old
        q == x[2] * new
    IN  IF p <= 0 THEN {0}
        ELSE IF p >= old * q THEN {old}
        ELSE IF 2 * (p % q) = q THEN {p \div q, (p \div q) + 1}
        ELSE {RoundHalfEven(p, q)}

\* the results _xy_postprocess(x, y, old_size, new_size) can have on rational
\* coordinates x, y
XyPostprocessOutcomes(x, y, old_size, new_size) ==
    AxisOutcomes(x, old_size[1], new_size[1])
        \X AxisOutcomes(y, old_size[2], new_size[2])

RECURSIVE SeqMax(_)
SeqMax(s) == IF Len(s) = 1 THEN s[1] ELSE Max2(s[1], SeqMax(Tail(s)))

\* score.argmax(): the first index of the maximum
ArgMax(s) == CHOOSE i \in DOMAIN s : s[i] = SeqMax(s) /\ \A j \in 1..(i - 1) : s[j] < s[i]

\* column c of the matrix output, rows from..to
Column(output, c, from, to) == [r \in 1..(to - from + 1) |-> output[r + from - 1][c]]

\* the elements of a set of indices, ascending (a boolean mask keeps the
\* selected columns in their order)
RECURSIVE Ascending(_)
Ascending(S) ==
    IF S = {} THEN <<>>
    ELSE LET m == CHOOSE x \in S : \A y \in S : x <= y
         IN  <<m>> \o Ascending(S \ {m})

\* max_scores >= conf_threshold: a candidate at the threshold survives
SurvivesInclusive(max_score, conf_threshold) == max_score >= conf_threshold

\* max_scores > conf_threshold: the mask of the candidates that are kept
Survives(max_score, conf_threshold) == max_score > conf_threshold

\* the test for no box that never returns early
NoBoxesNever(sel) == FALSE

\* not boxes.size: no candidate was selected
NoBoxes(sel) == Len(sel) = 0

\* _data_postprocess(output, conf_threshold, iou_threshold, old_size, new_size,
\* labels) with equal scores ordered by key in _yolo_nms: output is a matrix,
\* a sequence of rows; the result is
\* [err |-> "" or the exception, nms |-> the number of calls of _yolo_nms,
\*  dets |-> the detections <<(x0, y0, x1, y1), label, confidence>>]
DataPostprocessKeyed(output, conf_threshold, iou_threshold, old_size, new_size, labels, key) ==
    LET rows == Len(output)
        cols == IF rows = 0 THEN 0 ELSE Len(output[1])
    IN  IF rows <= 4
        \* output[4:, :] has no row: max over an empty axis raises
        THEN [err |-> "ValueError", nms |-> 0, dets |-> <<>>]
        ELSE
        LET max_scores == [c \in 1..cols |-> SeqMax(Column(output, c, 5, rows))]
            sel == Ascending({c \in 1..cols : Survives(max_scores[c], conf_threshold)})
            xywh == [k \in 1..Len(sel) |-> Column(output, sel[k], 1, 4)]
            scores == [k \in 1..Len(sel) |-> Column(output, sel[k], 5, rows)]
            filtered_max_scores == [k \in 1..Len(sel) |-> SeqMax(scores[k])]
        IN  IF NoBoxes(sel)
            THEN [err |-> "", nms |-> 0, dets |-> <<>>]
            ELSE
            LET boxes == [k \in 1..Len(sel) |-> _yolo_xywh2xyxy(xywh[k])]
                idx == YoloNmsKeyed(boxes, filtered_max_scores, iou_threshold,
                                    [k \in 1..Len(sel) |-> key[k]])
                Detection(k) ==
                    LET box == boxes[idx[k]]
                        score == scores[idx[k]]
                        p0 == _xy_postprocess(box[1], box[2], old_size, new_size)
                        p1 == _xy_postprocess(box[3], box[4], old_size, new_size)
                        max_score_id == ArgMax(score)
                    IN  <<<<p0[1], p0[2], p1[1], p1[2]>>, labels[max_score_id],
                          score[max_score_id]>>
            IN  [err |-> "", nms |-> 1,
                 dets |-> [k \in 1..Len(idx) |-> Detection(k)]]

\* _data_postprocess(output, conf_threshold, iou_threshold, old_size, new_size,
\* labels) on at most 16 candidates sorted by insertion: the result is
\* [err |-> "" or the exception, dets |-> the detections]
_data_postprocess(output, conf_threshold, iou_threshold, old_size, new_size, labels) ==
    LET r == DataPostprocessKeyed(output, conf_threshold, iou_threshold,
                                  old_size, new_size, labels,
                                  [k \in 1..(IF Len(output) = 0 THEN 0
                                             ELSE Len(output[1])) |-> k])
    IN  [err |-> r.err, dets |-> r.dets]

\* ------------------------------------------------------------------------
\* The model registry, as the callers of this module see it
\* ------------------------------------------------------------------------
Threads == {"t1", "t2"}

Repos == {"repoA"}

\* hf_token argument of yolo_predict: None or a token
Tokens == {"None", "tokA"}

\* model names a caller may ask for; "ghost" is published by no repository
ModelNames == {"det", "seg", "nonames", "gap", "ghost"}

\* hf_fs.glob(<repo_id>/*/model.onnx): the published model names
Published(repo_id) == {"det", "seg", "nonames", "gap"}

\* model.get_modelmeta().custom_metadata_map of <repo_id>/<model_name>/model.onnx
\* as a function of the keys present; names is the dict literal, key -> name
Metadata(repo_id, model_name) ==
    CASE model_name = "det" -> [names |-> (0 :> "cat") @@ (1 :> "dog")]
      [] model_name = "seg" -> [imgsz |-> <<1216, 1216>>,
                                names |-> (0 :> "cat") @@ (1 :> "dog")]
      [] model_name = "nonames" -> [imgsz |-> <<640, 640>>]
      [] OTHER -> [names |-> (1 :> "cat") @@ (2 :> "dog")]

\* the value of max_infer_size when the metadata has no imgsz
DefaultMaxInferSize == 640

\* arguments of lru_cache'd _open_models_for_repo_id
LruKeys == [repo_id : Repos, hf_token : Tokens]

NoKey == [repo_id |-> "", hf_token |-> ""]

\* the tuple (model, max_infer_size, labels); id tells the loaded runtime
\* models apart: it is the ordinal of the download that produced the model
NoHandle == [id |-> 0, max_infer_size |-> 0, labels |-> <<>>]

EmptyDict == <<>>

\* image arguments: a decoded image of a size, a file that does not decode,
\* an object that is no image
Images ==
    {[kind |-> "image", size |-> <<100, 100>>],
     [kind |-> "image", size |-> <<1050, 800>>],
     [kind |-> "bad_file", size |-> <<0, 0>>],
     [kind |-> "not_image", size |-> <<0, 0>>]}

\* raw outputs of model.run, rows x, y, w, h, score of class 0, score of
\* class 1, one column per candidate (values in 1 / Unit)
RawOutputs ==
    {<< <<>>, <<>>, <<>>, <<>>, <<>>, <<>> >>,
     << <<640>>, <<640>>, <<200>>, <<200>>, <<9>>, <<1>> >>,
     << <<640, 650>>, <<640, 650>>, <<200, 200>>, <<200, 200>>, <<2, 6>>, <<8, 4>> >>}

\* conf_threshold and iou_threshold arguments (in 1 / Unit): -0.5, 0.5, 1.5
Thresholds == {-5, 5, 15}

\* ------------------------------------------------------------------------
\* State
\* ------------------------------------------------------------------------
VARIABLES
    lru,            \* keys memoised by lru_cache: the YOLOModel objects
    names_loaded,   \* per YOLOModel: _model_names is not None
    models,         \* per YOLOModel: _models, model_name -> handle
    downloads,      \* per (repo_id, model_name): calls of hf_hub_download
    thread,         \* per thread: where it is in its call, and its locals
    pre,            \* the preprocess specification: arguments and result
    post            \* the suppression, postprocess and round trip
                    \* specifications: arguments and result

vars == <<lru, names_loaded, models, downloads, thread, pre, post>>

IdleThread ==
    [pc |-> "idle", op |-> "", key |-> NoKey, model_name |-> "",
     handle |-> NoHandle, result |-> "", dets |-> <<>>,
     conf_threshold |-> 0, iou_threshold |-> 0,
     built |-> 0, cleared |-> FALSE, evicted |-> 0]

NoPre == [width |-> 0, height |-> 0, max_infer_size |-> 0, align |-> 0,
          done |-> FALSE, new |-> <<0, 0>>]

InitCache ==
    /\ lru = {}
    /\ names_loaded = [k \in LruKeys |-> FALSE]
    /\ models = [k \in LruKeys |-> EmptyDict]
    /\ downloads = [r \in Repos, n \in ModelNames |-> 0]
    /\ thread = [t \in Threads |-> IdleThread]

\* no pure function is being applied
NoPost == [fn |-> ""]

Init == InitCache /\ pre = NoPre /\ post = NoPost

RECURSIVE SumOver(_, _)
SumOver(f, S) ==
    IF S = {} THEN 0
    ELSE LET x == CHOOSE y \in S : TRUE IN f[x] + SumOver(f, S \ {x})

TotalDownloads == SumOver(downloads, DOMAIN downloads)

\* the thread is inside _open_model, committed to hf_hub_download or back
\* from it, and before the assignment of line 366: its load is in flight
Loading(t) == thread[t].pc \in {"download", "store"}

\* align of the call _image_preprocess(image, max_infer_size) in predict
DefaultAlign == 32

\* the thread leaves its call with an exception or a result
Leave(t, result, dets) ==
    [thread EXCEPT ![t].pc = "done", ![t].result = result, ![t].dets = dets]

\* labels = [names_map[i] for i in range(len(names_map))]
LabelsOk(names_map) ==
    \A i \in 0..(Cardinality(DOMAIN names_map) - 1) : i \in DOMAIN names_map

Labels(names_map) == [i \in 1..Cardinality(DOMAIN names_map) |-> names_map[i - 1]]

\* ------------------------------------------------------------------------
\* Actions: one per access to the shared dictionaries
\* ------------------------------------------------------------------------
\* yolo_predict(image, repo_id, model_name, ..., hf_token): the lru_cache
\* returns the YOLOModel of (repo_id, hf_token), made on the first call, and
\* predict enters _open_model.  names is the set the caller draws from.
\* The lookup in the memo and the construction are one step; the memo keeps
\* 128 keys, more than LruKeys has, so no YOLOModel is ever dropped from it.
CallPredictOf(t, names) ==
    /\ thread[t].pc = "idle"
    /\ \E k \in LruKeys, n \in names :
          /\ lru' = lru \cup {k}
          /\ thread' = [thread EXCEPT ![t].pc = "open", ![t].op = "predict",
                                       ![t].key = k, ![t].model_name = n]
    /\ UNCHANGED <<names_loaded, models, downloads, pre, post>>

\* the threads of the concurrent specification ask for one model of each
\* kind: well formed, without names, with a gap in its names, unpublished
CallPredict(t) == CallPredictOf(t, {"det", "nonames", "gap", "ghost"})

\* _open_model, line 352: if model_name not in self._models
OpenModel(t) ==
    /\ thread[t].pc = "open"
    /\ thread' = [thread EXCEPT ![t].pc =
                      IF thread[t].model_name \in DOMAIN models[thread[t].key]
                      THEN "ret" ELSE "check"]
    /\ UNCHANGED <<lru, names_loaded, models, downloads, pre, post>>

\* _check_model_name that lets every model name through
UncheckedModelName(t) ==
    /\ thread[t].pc = "check"
    /\ names_loaded' = [names_loaded EXCEPT ![thread[t].key] = TRUE]
    /\ thread' = [thread EXCEPT ![t].pc = "download"]
    /\ UNCHANGED <<lru, models, downloads, pre, post>>

\* _check_model_name, with the model_names property that lists the
\* repository on its first use
_check_model_name(t) ==
    /\ thread[t].pc = "check"
    /\ names_loaded' = [names_loaded EXCEPT ![thread[t].key] = TRUE]
    /\ thread' = IF thread[t].model_name \in Published(thread[t].key.repo_id)
                 THEN [thread EXCEPT ![t].pc = "download"]
                 ELSE Leave(t, "ValueError", <<>>)
    /\ UNCHANGED <<lru, models, downloads, pre, post>>

\* _open_model that puts the entry in the cache as soon as the file is
\* there, before it reads the metadata
DownloadOutcomeStoringEarly(t, fetched) ==
    LET k == thread[t].key
        n == thread[t].model_name
        meta == Metadata(k.repo_id, n)
        max_infer_size == IF "imgsz" \in DOMAIN meta THEN SeqMax(meta.imgsz)
                          ELSE DefaultMaxInferSize
        early == [id |-> TotalDownloads + 1, max_infer_size |-> max_infer_size,
                  labels |-> <<>>]
    IN  /\ thread[t].pc = "download"
        /\ TotalDownloads < MaxDownloads
        /\ downloads' = [downloads EXCEPT ![k.repo_id, n] = @ + 1]
        /\ models' = IF fetched THEN [models EXCEPT ![k] = (n :> early) @@ @]
                     ELSE models
        /\ thread' =
              IF ~fetched THEN Leave(t, "DownloadError", <<>>)
              ELSE IF "names" \notin DOMAIN meta THEN Leave(t, "KeyError", <<>>)
              ELSE IF ~LabelsOk(meta.names) THEN Leave(t, "KeyError", <<>>)
              ELSE [thread EXCEPT ![t].pc = "store",
                                  ![t].built = TotalDownloads + 1,
                                  ![t].handle = [early EXCEPT !.labels = Labels(meta.names)]]
        /\ UNCHANGED <<lru, names_loaded, pre, post>>

\* _open_model, lines 354-365: hf_hub_download (fetched or raising), then
\* the metadata: max_infer_size, names, labels
DownloadOutcome(t, fetched) ==
    LET k == thread[t].key
        n == thread[t].model_name
        meta == Metadata(k.repo_id, n)
        max_infer_size == IF "imgsz" \in DOMAIN meta THEN SeqMax(meta.imgsz)
                          ELSE DefaultMaxInferSize
    IN  /\ thread[t].pc = "download"
        /\ TotalDownloads < MaxDownloads
        /\ downloads' = [downloads EXCEPT ![k.repo_id, n] = @ + 1]
        /\ thread' =
              IF ~fetched THEN Leave(t, "DownloadError", <<>>)
              ELSE IF "names" \notin DOMAIN meta THEN Leave(t, "KeyError", <<>>)
              ELSE IF ~LabelsOk(meta.names) THEN Leave(t, "KeyError", <<>>)
              ELSE [thread EXCEPT ![t].pc = "store",
                                  ![t].built = TotalDownloads + 1,
                                  ![t].handle = [id |-> TotalDownloads + 1,
                                                 max_infer_size |-> max_infer_size,
                                                 labels |-> Labels(meta.names)]]
        /\ UNCHANGED <<lru, names_loaded, models, pre, post>>

Download(t) == \E fetched \in BOOLEAN : DownloadOutcome(t, fetched)

\* _open_model, line 366: self._models[model_name] = (model, max_infer_size, labels)
Store(t) ==
    /\ thread[t].pc = "store"
    /\ models' = [models EXCEPT ![thread[t].key] =
                      (thread[t].model_name :> thread[t].handle) @@ @]
    /\ thread' = [thread EXCEPT ![t].pc = "ret"]
    /\ UNCHANGED <<lru, names_loaded, downloads, pre, post>>

\* _open_model, line 368: return self._models[model_name]
ReturnModel(t) ==
    /\ thread[t].pc = "ret"
    /\ thread' = IF thread[t].model_name \in DOMAIN models[thread[t].key]
                 THEN [thread EXCEPT ![t].pc = "infer",
                                     ![t].handle = models[thread[t].key][thread[t].model_name]]
                 ELSE Leave(t, "KeyError", <<>>)
    /\ UNCHANGED <<lru, names_loaded, models, downloads, pre, post>>

\* predict, lines 397-401: load_image, _image_preprocess, model.run,
\* _data_postprocess; the arguments are drawn from the given sets
PredictOf(t, images, outputs, thresholds) ==
    /\ thread[t].pc = "infer"
    /\ \E image \in images, output \in outputs,
          conf_threshold \in thresholds, iou_threshold \in thresholds :
          LET h == thread[t].handle
              p == _image_preprocess(image.size[1], image.size[2],
                                     h.max_infer_size, DefaultAlign)
              r == _data_postprocess(output, conf_threshold, iou_threshold,
                                     p.old, p.new, h.labels)
              result == IF image.kind = "not_image" THEN "TypeError"
                        ELSE IF image.kind = "bad_file" THEN "UnidentifiedImageError"
                        ELSE IF r.err # "" THEN r.err
                        ELSE "ok"
          IN  thread' = [thread EXCEPT ![t].pc = "done",
                                       ![t].result = result,
                                       ![t].dets = IF result = "ok" THEN r.dets ELSE <<>>,
                                       ![t].conf_threshold = conf_threshold,
                                       ![t].iou_threshold = iou_threshold]
    /\ UNCHANGED <<lru, names_loaded, models, downloads, pre, post>>

\* predict with every argument of the sequential specification
Predict(t) == PredictOf(t, Images, RawOutputs, Thresholds)

\* predict as the threads of the concurrent specification call it: one
\* image, one raw output, thresholds 0.5
PredictOne(t) ==
    PredictOf(t, {[kind |-> "image", size |-> <<100, 100>>]},
              {<< <<640>>, <<640>>, <<200>>, <<200>>, <<9>>, <<1>> >>}, {5})

\* clear() that forgets the listed model names and keeps the models
clearNamesOnly(t) ==
    /\ thread[t].pc = "idle"
    /\ \E k \in lru :
          /\ names_loaded' = [names_loaded EXCEPT ![k] = FALSE]
          /\ thread' = [thread EXCEPT ![t].pc = "done", ![t].op = "clear",
                                       ![t].key = k, ![t].result = "ok"]
    /\ UNCHANGED <<lru, models, downloads, pre, post>>

\* YOLOModel.clear() on an existing YOLOModel: self._models.clear()
clear(t) ==
    /\ thread[t].pc = "idle"
    /\ \E k \in lru :
          /\ models' = [models EXCEPT ![k] = EmptyDict]
          /\ thread' = [u \in Threads |->
                IF u = t
                THEN [thread[t] EXCEPT !.pc = "done", !.op = "clear", !.key = k,
                                       !.result = "ok",
                                       !.evicted = Cardinality(DOMAIN models[k])]
                ELSE IF thread[u].key = k /\ thread[u].pc = "store"
                THEN [thread[u] EXCEPT !.cleared = TRUE]
                ELSE thread[u]]
    /\ UNCHANGED <<lru, names_loaded, downloads, pre, post>>

\* the call has returned or raised; the thread is free for its next call
Finish(t) ==
    /\ thread[t].pc = "done"
    /\ thread' = [thread EXCEPT ![t] = IdleThread]
    /\ UNCHANGED <<lru, names_loaded, models, downloads, pre, post>>

Next ==
    \E t \in Threads :
        \/ CallPredict(t)
        \/ OpenModel(t)
        \/ _check_model_name(t)
        \/ Download(t)
        \/ Store(t)
        \/ ReturnModel(t)
        \/ PredictOne(t)
        \/ clear(t)
        \/ Finish(t)

Spec == Init /\ [][Next]_vars

\* ------------------------------------------------------------------------
\* Sequential specification: one caller, every call succeeds, no clear()
\* ------------------------------------------------------------------------
SeqThreads == {"t1"}

NextSeq ==
    \E t \in SeqThreads :
        \/ CallPredictOf(t, {"det", "seg"})
        \/ OpenModel(t)
        \/ _check_model_name(t)
        \/ DownloadOutcome(t, TRUE)
        \/ Store(t)
        \/ ReturnModel(t)
        \/ Predict(t)
        \/ Finish(t)

SpecSeq == Init /\ [][NextSeq]_vars

\* ------------------------------------------------------------------------
\* Preprocess specification: _image_preprocess applied to drawn arguments
\* ------------------------------------------------------------------------
InitPre ==
    /\ InitCache
    /\ post = NoPost
    /\ pre \in [width : 1..MaxDim, height : 1..MaxDim,
                max_infer_size : 1..MaxInfer, align : 1..MaxAlign,
                done : {FALSE}, new : {<<0, 0>>}]

Preprocess ==
    /\ ~pre.done
    /\ pre' = [pre EXCEPT !.done = TRUE,
                          !.new = _image_preprocess(pre.width, pre.height,
                                                    pre.max_infer_size, pre.align).new]
    /\ UNCHANGED <<lru, names_loaded, models, downloads, thread, post>>

NextPre == Preprocess

SpecPre == InitPre /\ [][NextPre]_vars

\* ------------------------------------------------------------------------
\* Round trip specification: a point of the original image is scaled by the
\* factors of _image_preprocess and mapped back by _xy_postprocess
\* ------------------------------------------------------------------------
\* the point is (x2 / 2, y2 / 2): pixel corners and pixel centres
InitRT ==
    /\ InitCache
    /\ pre = NoPre
    /\ post \in {a \in [fn : {"roundtrip"}, stage : {"args"},
                        width : 1..MaxRtDim, height : 1..MaxRtDim,
                        max_infer_size : 1..MaxRtDim, align : 1..MaxAlign,
                        x2 : 0..(2 * MaxRtDim), y2 : 0..(2 * MaxRtDim),
                        new : {<<0, 0>>}, back : {<<0, 0>>}] :
                    a.x2 <= 2 * a.width /\ a.y2 <= 2 * a.height}

\* the image is resized: new_size of _image_preprocess
ResizeImage ==
    /\ post.fn = "roundtrip" /\ post.stage = "args"
    /\ post' = [post EXCEPT !.stage = "resized",
                            !.new = _image_preprocess(post.width, post.height,
                                                      post.max_infer_size,
                                                      post.align).new]
    /\ UNCHANGED <<lru, names_loaded, models, downloads, thread, pre>>

\* the point, scaled by new_width / old_width and new_height / old_height,
\* goes through _xy_postprocess
MapBack ==
    /\ post.fn = "roundtrip" /\ post.stage = "resized"
    /\ \E back \in XyPostprocessOutcomes(
                       <<post.x2 * post.new[1], 2 * post.width>>,
                       <<post.y2 * post.new[2], 2 * post.height>>,
                       <<post.width, post.height>>, post.new) :
           post' = [post EXCEPT !.stage = "back", !.back = back]
    /\ UNCHANGED <<lru, names_loaded, models, downloads, thread, pre>>

NextRT == ResizeImage \/ MapBack

SpecRT == InitRT /\ [][NextRT]_vars

\* ------------------------------------------------------------------------
\* Suppression specification: _yolo_nms applied to drawn boxes and scores,
\* then to the boxes and scores it kept
\* ------------------------------------------------------------------------
\* boxes [xmin, ymin, xmax, ymax] in corner units: (0, 0, 9, 9),
\* (0, 0, 9, 4), (1, 1, 10, 10) and (20, 20, 29, 29) in pixels.  The first
\* two have iou 50 / 100, the first and the third 81 / 119, the second and
\* the third 36 / 114, the last overlaps none.
NmsBoxes ==
    {<<0, 0, 9 * One, 9 * One>>, <<0, 0, 9 * One, 4 * One>>,
     <<One, One, 10 * One, 10 * One>>, <<20 * One, 20 * One, 29 * One, 29 * One>>}

\* scores, in 1 / Unit
NmsScores == {5, 7, 9}

\* thresh, in 1 / Unit
NmsThresholds == {0, 5, 7}

\* the orders a sort can leave n equal elements in
Perms(n) == {f \in [1..n -> 1..n] : \A i, j \in 1..n : f[i] = f[j] => i = j}

InitNms ==
    /\ InitCache
    /\ pre = NoPre
    /\ post \in {[fn |-> "nms", stage |-> "args", boxes |-> b, scores |-> sc,
                  thresh |-> th, keep |-> <<>>, again |-> <<>>] :
                    <<b, sc, th>> \in UNION {[1..n -> NmsBoxes] \X [1..n -> NmsScores]
                                                \X NmsThresholds : n \in 0..MaxBoxes}}

\* keep = _yolo_nms(boxes, scores, thresh)
Suppress ==
    /\ post.fn = "nms" /\ post.stage = "args"
    /\ \E key \in Perms(Len(post.boxes)) :
           post' = [post EXCEPT !.stage = "kept",
                                !.keep = YoloNmsKeyed(post.boxes, post.scores,
                                                      post.thresh, key)]
    /\ UNCHANGED <<lru, names_loaded, models, downloads, thread, pre>>

\* again = _yolo_nms(boxes[keep], scores[keep], thresh)
SuppressAgain ==
    /\ post.fn = "nms" /\ post.stage = "kept"
    /\ \E key \in Perms(Len(post.keep)) :
           post' = [post EXCEPT !.stage = "again",
                                !.again = YoloNmsKeyed(
                                    [k \in 1..Len(post.keep) |-> post.boxes[post.keep[k]]],
                                    [k \in 1..Len(post.keep) |-> post.scores[post.keep[k]]],
                                    post.thresh, key)]
    /\ UNCHANGED <<lru, names_loaded, models, downloads, thread, pre>>

NextNms == Suppress \/ SuppressAgain

SpecNms == InitNms /\ [][NextNms]_vars

\* ------------------------------------------------------------------------
\* Postprocess specification: _data_postprocess applied to drawn raw outputs
\* ------------------------------------------------------------------------
\* the candidate of the example of _data_postprocess: x, y, w, h = 10, 10,
\* 20, 20 and scores 0.9, 0.1
DocCand == <<100, 100, 200, 200, 9, 1>>

\* candidates (x, y, w, h, score of class 0, score of class 1), in 1 / Unit:
\* one over the example's box, one whose best score is 0.5, one with a
\* negative width, one that reaches beyond the resized image
PostCands ==
    {DocCand,
     <<110, 110, 200, 200, 1, 7>>,
     <<600, 400, 200, 200, 5, 5>>,
     <<500, 300, -200, 200, 7, 2>>,
     <<1200, 600, 400, 200, 3, 8>>}

\* the raw output of model.run for a sequence of candidates: one row per
\* attribute, one column per candidate
Matrix(cands) == [r \in 1..6 |-> [c \in 1..Len(cands) |-> cands[c][r]]]

\* np.array([[10, 10, 20, 20, 0.9, 0.1]]) as the example of _data_postprocess
\* writes it: one row of six columns
DocOutput == <<DocCand>>

PostOutputs ==
    {DocOutput} \cup {Matrix(cands) : cands \in UNION {[1..n -> PostCands] : n \in 0..MaxCands}}

\* conf_threshold, in 1 / Unit
PostConfs == {3, 5, 7}

\* iou_threshold, in 1 / Unit
PostIous == {3, 5}

\* (old_size, new_size): the resized sizes are powers of two, for which
\* x / new * old is exact in binary64
PostSizes == {<<<<100, 100>>, <<128, 128>>>>, <<<<100, 60>>, <<128, 64>>>>}

PostLabels == <<"cat", "dog">>

InitPost ==
    /\ InitCache
    /\ pre = NoPre
    /\ post \in {[fn |-> "post", done |-> FALSE, output |-> o,
                  conf_threshold |-> c, iou_threshold |-> i,
                  old_size |-> sz[1], new_size |-> sz[2],
                  err |-> "", nms |-> 0, dets |-> <<>>] :
                    <<o, c, i, sz>> \in PostOutputs \X PostConfs \X PostIous \X PostSizes}

\* dets = _data_postprocess(output, conf_threshold, iou_threshold, old_size,
\* new_size, labels)
Postprocess ==
    /\ post.fn = "post" /\ ~post.done
    /\ \E key \in Perms(Len(post.output[1])) :
           LET r == DataPostprocessKeyed(post.output, post.conf_threshold,
                                         post.iou_threshold, post.old_size,
                                         post.new_size, PostLabels, key)
           IN  post' = [post EXCEPT !.done = TRUE, !.err = r.err,
                                    !.nms = r.nms, !.dets = r.dets]
    /\ UNCHANGED <<lru, names_loaded, models, downloads, thread, pre>>

NextPost == Postprocess

SpecPost == InitPost /\ [][NextPost]_vars

\* ------------------------------------------------------------------------
\* Properties
\* ------------------------------------------------------------------------
\* the threads whose load of (repo_id, model_name) is in flight
InFlight(repo_id, model_name) ==
    {t \in Threads : /\ Loading(t)
                     /\ thread[t].key.repo_id = repo_id
                     /\ thread[t].model_name = model_name}

\* C1: at most one load is in flight for a (repository_id, variant_name):
\* concurrent callers of a not yet loaded key wait for the single load, they
\* do not each download the artifact.
C1_SingleInFlightLoad ==
    \A r \in Repos, n \in ModelNames : Cardinality(InFlight(r, n)) <= 1

\* C2: clear() does not race with a load in flight: once a thread whose load
\* was in flight when clear() ran has finished the load, the cache does not
\* hold the entry that load produced.
C2_ClearedLoadLeavesNoEntry ==
    \A t \in Threads :
        (thread[t].cleared /\ thread[t].pc \in {"ret", "infer", "done"})
        => ~(/\ thread[t].model_name \in DOMAIN models[thread[t].key]
             /\ models[thread[t].key][thread[t].model_name].id = thread[t].built)

\* the handles of (repo_id, model_name) held by the caches of all YOLOModels
HandlesOf(repo_id, model_name) ==
    {models[k][model_name].id :
        k \in {j \in LruKeys : j.repo_id = repo_id /\ model_name \in DOMAIN models[j]}}

\* C3: in every reachable state there is at most one ModelHandle for each
\* (repository_id, variant_name).
C3_OneHandlePerKey ==
    \A r \in Repos, n \in ModelNames : Cardinality(HandlesOf(r, n)) <= 1

\* C4: with sequential successful calls and no clear(), the artifact of a
\* (repository_id, variant_name) is downloaded exactly once, on the first
\* call; every later call reuses the cached handle.
C4_DownloadedOnce ==
    \A r \in Repos, n \in ModelNames : downloads[r, n] <= 1

\* C5: a request for a model name the repository does not publish fails with
\* the unknown-variant error (ValueError) before any download, and no step of
\* that request changes a model cache or downloads anything.
C5_UnknownVariantLeavesCache ==
    [][\A t \in Threads :
          (/\ thread'[t].op # "clear"
           /\ thread'[t].pc # "idle"
           /\ thread'[t].model_name \notin Published(thread'[t].key.repo_id)
           /\ thread'[t].pc # thread[t].pc)
          => /\ models' = models
             /\ downloads' = downloads
             /\ thread'[t].pc \in {"open", "check", "done"}
             /\ thread'[t].pc = "done" => /\ thread'[t].result = "ValueError"
                                          /\ thread'[t].dets = <<>>]_vars

C5_Witness ==
    \E t \in Threads :
        /\ thread[t].pc = "done"
        /\ thread[t].model_name = "ghost"
        /\ thread[t].result = "ValueError"
        /\ downloads[thread[t].key.repo_id, "ghost"] = 0
        /\ \E k \in LruKeys : models[k] # EmptyDict

\* model names whose artifact cannot be loaded: no names, or names not
\* contiguous from 0
Unloadable(repo_id) ==
    {n \in Published(repo_id) :
        \/ "names" \notin DOMAIN Metadata(repo_id, n)
        \/ ~LabelsOk(Metadata(repo_id, n).names)}

\* C6: when the load fails (the download raises, names is missing, the label
\* map is not contiguous from 0) the caller gets the error and no detection,
\* the failing step creates no cache entry, an unloadable model is never
\* cached, and a call that finds no entry for its key goes to load it.
C6_FailedLoadLeavesNoEntry ==
    [][\A t \in Threads :
          /\ (thread[t].pc = "download" /\ thread'[t].pc = "done")
             => /\ thread'[t].result \in {"DownloadError", "KeyError"}
                /\ thread'[t].dets = <<>>
                /\ models' = models
          /\ (thread[t].pc = "download" /\ thread'[t].pc # "download"
              /\ thread[t].model_name \in Unloadable(thread[t].key.repo_id))
             => thread'[t].pc = "done"
          /\ (thread[t].pc = "open" /\ thread'[t].pc # "open"
              /\ thread[t].model_name \notin DOMAIN models[thread[t].key])
             => thread'[t].pc = "check"
          /\ \A k \in LruKeys : DOMAIN models'[k] \cap Unloadable(k.repo_id) = {}]_vars

C6_Witness ==
    \E t \in Threads :
        /\ thread[t].pc = "done"
        /\ thread[t].model_name = "gap"
        /\ thread[t].result = "KeyError"
        /\ downloads[thread[t].key.repo_id, "gap"] = 2
        /\ \A k \in LruKeys : "gap" \notin DOMAIN models[k]

\* C7: predict validates its thresholds: with conf_threshold or iou_threshold
\* outside [0, 1] it fails with InvalidArgument and returns no detection.
C7_ThresholdsValidated ==
    \A t \in Threads :
        (/\ thread[t].pc = "done"
         /\ thread[t].op = "predict"
         /\ \/ thread[t].conf_threshold \notin 0..Unit
            \/ thread[t].iou_threshold \notin 0..Unit)
        => /\ thread[t].result = "InvalidArgument"
           /\ thread[t].dets = <<>>

\* C8: clear() evicts every entry of the model cache of its YOLOModel: right
\* after it the cache holds no handle, and a load that finds no entry for its
\* key downloads the artifact anew before it stores a handle.
C8_ClearEvictsAll ==
    [][\A t \in Threads :
          /\ (thread[t].pc = "idle" /\ thread'[t].op = "clear")
             => models'[thread'[t].key] = EmptyDict
          /\ (thread[t].pc = "open" /\ thread'[t].pc # "open"
              /\ thread[t].model_name \notin DOMAIN models[thread[t].key])
             => thread'[t].pc = "check"
          /\ (thread'[t].pc = "store" /\ thread[t].pc # "store")
             => /\ thread[t].pc = "download"
                /\ downloads'[thread[t].key.repo_id, thread[t].model_name]
                     = downloads[thread[t].key.repo_id, thread[t].model_name] + 1
                /\ \A k \in LruKeys : \A n \in DOMAIN models[k] :
                      models[k][n].id # thread'[t].handle.id]_vars

C8_Witness ==
    \E t \in Threads :
        /\ thread[t].pc = "done"
        /\ thread[t].op = "clear"
        /\ thread[t].evicted >= 1
        /\ models[thread[t].key] = EmptyDict

\* C9: both output dimensions of preprocess are multiples of align, and when
\* max(width, height) >= max_infer_size neither exceeds
\* ceil(max_infer_size / align) * align.
C9_AlignedAndCapped ==
    pre.done =>
        /\ pre.new[1] % pre.align = 0
        /\ pre.new[2] % pre.align = 0
        /\ Max2(pre.width, pre.height) >= pre.max_infer_size
           => /\ pre.new[1] <= CeilDiv(pre.max_infer_size, pre.align) * pre.align
              /\ pre.new[2] <= CeilDiv(pre.max_infer_size, pre.align) * pre.align

C11_RoundTripWithinOnePixel ==
    (post.fn = "roundtrip" /\ post.stage = "back") =>
        /\ 2 * post.back[1] - post.x2 \in -2..2
        /\ 2 * post.back[2] - post.y2 \in -2..2

C11_Witness ==
    /\ post.fn = "roundtrip" /\ post.stage = "back"
    /\ post.new[1] < post.width
    /\ post.new[2] # post.height
    /\ post.x2 > 2 /\ post.x2 % 2 = 1
    /\ post.y2 = 2 * post.height
    /\ 2 * post.back[1] = post.x2 + 1
    /\ post.back[2] = post.height

\* the elements of a sequence
Range(s) == {s[k] : k \in DOMAIN s}

\* C12: suppression is idempotent: _yolo_nms run again, with the same
\* threshold, on the boxes and scores it kept keeps all of them, whatever
\* order the sort leaves equal scores in.
C12_SuppressionIdempotent ==
    (post.fn = "nms" /\ post.stage = "again") =>
        /\ Len(post.again) = Len(post.keep)
        /\ Range(post.again) = 1..Len(post.keep)

C12_Witness ==
    /\ post.fn = "nms" /\ post.stage = "again"
    /\ Len(post.boxes) = 3
    /\ Len(post.keep) = 2
    /\ post.scores[post.keep[1]] = post.scores[post.keep[2]]
    /\ post.boxes[post.keep[1]] # post.boxes[post.keep[2]]
    /\ post.again = <<2, 1>>

\* iou > thresh for two boxes with xmin <= xmax and ymin <= ymax, with
\* iou = inter / (areas[i] + areas[j] - inter)
IouExceeds(a, b, thresh) ==
    BoxInter(a, b) * Unit > thresh * (BoxArea(a) + BoxArea(b) - BoxInter(a, b))

\* iou = thresh exactly, for two such boxes
IouEquals(a, b, thresh) ==
    BoxInter(a, b) * Unit = thresh * (BoxArea(a) + BoxArea(b) - BoxInter(a, b))

\* C13: the suppression boundary is exclusive: of two boxes whose IoU (with
\* the + 1 pixel areas) is exactly the threshold both are kept, and a box is
\* dropped only when its IoU with a kept box of at least its score is
\* strictly greater than the threshold.
C13_BoundaryExclusive ==
    (post.fn = "nms" /\ post.stage = "kept") =>
        /\ (/\ Len(post.boxes) = 2
            /\ IouEquals(post.boxes[1], post.boxes[2], post.thresh))
           => Range(post.keep) = {1, 2}
        /\ \A j \in DOMAIN post.boxes \ Range(post.keep) :
              \E i \in Range(post.keep) :
                  /\ post.scores[i] >= post.scores[j]
                  /\ IouExceeds(post.boxes[i], post.boxes[j], post.thresh)

C13_Witness ==
    /\ post.fn = "nms" /\ post.stage = "kept"
    /\ Len(post.boxes) = 2
    /\ post.thresh > 0
    /\ IouEquals(post.boxes[1], post.boxes[2], post.thresh)
    /\ post.scores[1] > post.scores[2]
    /\ post.keep = <<1, 2>>

\* C14: tie-break of suppression: of two candidates with equal scores that
\* overlap above the threshold the one that comes first in the input is kept
\* and the later one is dropped.
C14_FirstSeenWins ==
    (/\ post.fn = "nms" /\ post.stage = "kept"
     /\ Len(post.boxes) = 2
     /\ post.scores[1] = post.scores[2]
     /\ IouExceeds(post.boxes[1], post.boxes[2], post.thresh))
    => post.keep = <<1>>

\* C18: greedy suppression: _yolo_nms returns distinct indices in
\* non-increasing score order; no two kept boxes have IoU above the
\* threshold; every box that is not kept has IoU above the threshold with a
\* kept box of at least its score; a box of the highest score is kept, first,
\* when there is a box.
C18_GreedySuppression ==
    (post.fn = "nms" /\ post.stage = "kept") =>
        LET keep == post.keep
        IN  /\ Range(keep) \subseteq DOMAIN post.boxes
            /\ \A k, l \in DOMAIN keep : k < l =>
                  /\ keep[k] # keep[l]
                  /\ post.scores[keep[k]] >= post.scores[keep[l]]
                  /\ ~IouExceeds(post.boxes[keep[k]], post.boxes[keep[l]], post.thresh)
            /\ \A j \in DOMAIN post.boxes \ Range(keep) :
                  \E i \in Range(keep) :
                      /\ post.scores[i] >= post.scores[j]
                      /\ IouExceeds(post.boxes[i], post.boxes[j], post.thresh)
            /\ post.boxes # <<>> =>
                  /\ keep # <<>>
                  /\ \A j \in DOMAIN post.boxes :
                        post.scores[keep[1]] >= post.scores[j]

C18_Witness ==
    /\ post.fn = "nms" /\ post.stage = "kept"
    /\ Len(post.boxes) = 3
    /\ post.scores[1] < post.scores[2] /\ post.scores[2] < post.scores[3]
    /\ post.keep = <<3, 1>>
    /\ ~IouExceeds(post.boxes[1], post.boxes[2], post.thresh)

\* C15: the concrete scenario: postprocess of the raw output
\* [[10, 10, 20, 20, 0.9, 0.1]] (one candidate, two classes), written as the
\* example writes it or with one column for the candidate, with
\* conf_threshold 0.5, original size (100, 100) and resized size (128, 128)
\* returns exactly one detection: box (7, 7, 15, 15), label of index 0,
\* confidence 0.9.
C15_DocstringScenario ==
    (/\ post.fn = "post" /\ post.done
     /\ post.output \in {DocOutput, Matrix(<<DocCand>>)}
     /\ post.conf_threshold = 5
     /\ post.old_size = <<100, 100>> /\ post.new_size = <<128, 128>>)
    => /\ post.err = ""
       /\ post.dets = << <<<<7, 7, 15, 15>>, PostLabels[1], 9>> >>

\* the best class score of candidate c of a raw output with class rows
MaxScoreOf(output, c) == SeqMax(Column(output, c, 5, Len(output)))

\* C16: when no candidate of a raw output with class rows survives the
\* confidence filter (every best class score <= conf_threshold, or there is
\* no candidate at all) postprocess returns no detection, raises nothing and
\* does not call _yolo_nms.
C16_NoSurvivorNoSuppression ==
    (/\ post.fn = "post" /\ post.done
     /\ Len(post.output) > 4
     /\ \A c \in DOMAIN post.output[1] :
           MaxScoreOf(post.output, c) <= post.conf_threshold)
    => /\ post.err = ""
       /\ post.dets = <<>>
       /\ post.nms = 0

C16_Witness ==
    /\ post.fn = "post" /\ post.done
    /\ Len(post.output) > 4
    /\ Len(post.output[1]) = 2
    /\ MaxScoreOf(post.output, 1) = post.conf_threshold
    /\ MaxScoreOf(post.output, 2) < post.conf_threshold
    /\ post.err = "" /\ post.dets = <<>> /\ post.nms = 0

\* C17: every detection of postprocess, for any raw output, has x0 <= x1 and
\* y0 <= y1, with 0 <= x0, x1 <= original width and 0 <= y0, y1 <= original
\* height.
C17_BoxOrderedAndClipped ==
    (post.fn = "post" /\ post.done) =>
        \A k \in DOMAIN post.dets :
            LET box == post.dets[k][1]
            IN  /\ box[1] <= box[3] /\ box[2] <= box[4]
                /\ box[1] \in 0..post.old_size[1] /\ box[3] \in 0..post.old_size[1]
                /\ box[2] \in 0..post.old_size[2] /\ box[4] \in 0..post.old_size[2]

\* the detection of candidate c: its box mapped to the original image, the
\* label at its first best class, its best class score
DetectionOf(output, c, old_size, new_size, labels) ==
    LET box == _yolo_xywh2xyxy(Column(output, c, 1, 4))
        p0 == _xy_postprocess(box[1], box[2], old_size, new_size)
        p1 == _xy_postprocess(box[3], box[4], old_size, new_size)
        score == Column(output, c, 5, Len(output))
    IN  <<<<p0[1], p0[2], p1[1], p1[2]>>, labels[ArgMax(score)], SeqMax(score)>>

\* C19: every detection of postprocess comes from one surviving candidate of
\* its own: its confidence is the best class score of the candidate and is
\* strictly greater than conf_threshold (a candidate whose best score equals
\* conf_threshold is discarded), its label is the label at the argmax class
\* of the candidate, its box is the candidate's.
C19_DetectionFromSurvivor ==
    (post.fn = "post" /\ post.done /\ post.err = "") =>
        \E f \in [DOMAIN post.dets -> DOMAIN post.output[1]] :
            /\ \A k, l \in DOMAIN post.dets : f[k] = f[l] => k = l
            /\ \A k \in DOMAIN post.dets :
                  /\ post.dets[k] = DetectionOf(post.output, f[k], post.old_size,
                                                post.new_size, PostLabels)
                  /\ post.dets[k][3] = MaxScoreOf(post.output, f[k])
                  /\ post.dets[k][3] > post.conf_threshold

C19_Witness ==
    /\ post.fn = "post" /\ post.done /\ post.err = ""
    /\ Len(post.output[1]) = 2
    /\ MaxScoreOf(post.output, 1) = post.conf_threshold
    /\ MaxScoreOf(post.output, 2) > post.conf_threshold
    /\ post.output[6][2] > post.output[5][2]
    /\ Len(post.dets) = 1
    /\ post.dets[1][2] = "dog"
    /\ post.dets[1][3] = post.output[6][2]

====
